---------------------------- MODULE Spec2Model ----------------------------
(***************************************************************************)
(* Model of mldb's procedure layer (src/core/procedure.h):                 *)
(*   - Procedure::applyRunConfOverProcConf, the overlay of a run's params  *)
(*     on the procedure's configuration (the `update` lambda);             *)
(*   - the validation helpers validate<...> and the three validators       *)
(*     NoGroupByHaving, PlainColumnSelect and FeaturesLabelSelect.         *)
(*                                                                         *)
(* A Json::Value is a record [type, int, elems, members]: `members` is a   *)
(* function from member names to values and is only used by objects,       *)
(* `elems` only by arrays, `int` only by integers.                         *)
(***************************************************************************)
EXTENDS Integers, Sequences, FiniteSets, TLC

VARIABLES
    \* ---- applyRunConfOverProcConf (procedure.h:131-157) ----
    nullIsObject,   \* what Json::Value::isObject() answers for a null value
                    \* (called at lines 139 and 142)
    procConf,       \* the parameter procConf (line 133), as jsonEncode gives it
    run,            \* the ProcedureRunConfig passed (lines 41-44, 134)
    modifiedRun,    \* the local Json::Value the lambda works on (line 153)
    decoded,        \* "none" | "ok" | "exception": how jsonDecode ended (line 156)
    mpc,            \* "idle" | "called" | "returned"
    \* ---- validate<...> (procedure.h:364-406) ----
    query,          \* the validated field cfg->*field: [stm |-> <<>> or <<statement>>]
    fieldName,      \* the `name` given to validate (line 368)
    chain,          \* the validators of the validate<...> instance, in order
    ran,            \* the validators whose operator() was entered, in order
    thrown,         \* <<>> or <<message>>: the ML::Exception that left the lambda
    vpc,            \* "idle" | "validated"
    \* ---- Procedure::run and the run record store (procedure.h:55-69, 111, 159) ----
    runs,           \* the ProcedureRun records of Procedure::runs, in append order
    now,            \* the clock the timestamps are read from
    calls           \* for each caller, the run call it has under way

mvars == <<nullIsObject, procConf, run, modifiedRun, decoded, mpc>>
vvars == <<query, fieldName, chain, ran, thrown, vpc>>
rvars == <<runs, now, calls>>
vars == <<mvars, vvars, rvars>>

(***************************************************************************)
(* Bounds.                                                                 *)
(***************************************************************************)
\* The most members (counted over all nesting levels) of a generated tree.
MaxMembers == 2
\* The most clauses of a generated select list.
MaxClauses == 2
\* The latest time the clock reaches.
MaxClock == 2
\* No run is started once the store holds this many records.
MaxRuns == 2

(***************************************************************************)
(* Json::Value                                                             *)
(***************************************************************************)
Null == [type |-> "null", int |-> 0, elems |-> <<>>, members |-> <<>>]

IntVal(n) == [type |-> "int", int |-> n, elems |-> <<>>, members |-> <<>>]

ArrayVal(s) == [type |-> "array", int |-> 0, elems |-> s, members |-> <<>>]

ObjectVal(f) == [type |-> "object", int |-> 0, elems |-> <<>>, members |-> f]

EmptyObject == ObjectVal(<<>>)

\* Member names, in the order getMemberNames() lists them.
KeyOrder == <<"a", "b">>

Keys == {KeyOrder[i] : i \in DOMAIN KeyOrder}

\* Json::Value::isObject(). The bundled jsoncpp answers true for a null value;
\* later jsoncpp releases answer false. Both are modelled.
isObject(v) == v.type = "object" \/ (v.type = "null" /\ nullIsObject)

\* Json::Value::isMember(key).
isMember(v, key) == v.type = "object" /\ key \in DOMAIN v.members

\* Json::Value::getMemberNames(): none for a null value.
getMemberNames(v) ==
    IF v.type = "object"
    THEN SelectSeq(KeyOrder, LAMBDA k : k \in DOMAIN v.members)
    ELSE <<>>

\* The non-const Json::Value::operator[](key) followed by an assignment:
\* a[key] = x. A null value becomes an object on the way.
setMember(a, key, x) ==
    LET old == IF a.type = "object" THEN a.members ELSE <<>>
    IN  ObjectVal([k \in (DOMAIN old) \cup {key} |->
                      IF k = key THEN x ELSE old[k]])

\* The const Json::Value::operator[](key): the member, or null.
getMember(v, key) == IF isMember(v, key) THEN v.members[key] ELSE Null

(***************************************************************************)
(* The update lambda of applyRunConfOverProcConf.                          *)
(***************************************************************************)
RECURSIVE update(_, _)
RECURSIVE updateLoop(_, _, _)

\* Faulty variant of updateLoop: a shallow overlay, which assigns b's member
\* even when it is an object instead of descending into it.
RECURSIVE updateLoopShallow(_, _, _)
updateLoopShallow(a, b, names) ==
    IF names = <<>> THEN a
    ELSE updateLoopShallow(setMember(a, Head(names), getMember(b, Head(names))),
                           b, Tail(names))

\* The body of the for loop, for the member names `names` still to visit.
updateLoop(a, b, names) ==
    IF names = <<>> THEN a
    ELSE LET key == Head(names)
             a1 == IF isObject(getMember(b, key))
                   THEN LET a0 == IF ~isMember(a, key)
                                  THEN setMember(a, key, Null)
                                  ELSE a
                        IN  setMember(a0, key,
                                update(getMember(a0, key), getMember(b, key)))
                   ELSE setMember(a, key, getMember(b, key))
         IN  updateLoop(a1, b, Tail(names))

\* update(a, b): the value of `a` when the lambda returns.
update(a, b) ==
    IF ~isObject(a) \/ ~isObject(b) THEN a
    ELSE updateLoop(a, b, getMemberNames(b))

(***************************************************************************)
(* Generated inputs: the trees with at most n members in all.              *)
(***************************************************************************)
Leaves == {Null, IntVal(1), IntVal(2), ArrayVal(<<1>>)}

RECURSIVE Size(_)
Size(v) ==
    IF v.type # "object" THEN 0
    ELSE LET RECURSIVE Sum(_)
             Sum(s) == IF s = <<>> THEN 0
                       ELSE 1 + Size(v.members[Head(s)]) + Sum(Tail(s))
         IN  Sum(getMemberNames(v))

RECURSIVE Objects(_)
Objects(n) ==
    {EmptyObject} \cup
    UNION { {o \in {ObjectVal(f) : f \in [S -> Leaves \cup Objects(n - Cardinality(S))]} :
                Size(o) <= n}
            : S \in {T \in SUBSET Keys : T # {} /\ Cardinality(T) <= n} }

Values(n) == Leaves \cup Objects(n)

\* jsonEncode(procConf) of a configuration structure is an object.
ProcConfs == Objects(MaxMembers)

\* run.params is an Any: empty (null), an object, or anything else.
RunParams == Values(MaxMembers)

RunIds == {"r1"}

(***************************************************************************)
(* applyRunConfOverProcConf                                                *)
(***************************************************************************)
\* No run configuration is held between calls.
NoRun == [id |-> "", params |-> Null]

\* RunOutput(results, details).
RunOutput(results, details) == [results |-> results, details |-> details]

\* The threads of control that call Procedure::run.
Callers == {"c1", "c2"}

\* A caller with no run call under way.
NoCall ==
    [pc |-> "idle", config |-> NoRun, runStarted |-> 0, result |-> "none",
     error |-> "", output |-> RunOutput(Null, Null)]

\* A constructed procedure with its configuration; no call is under way and
\* no field is being validated.
MergeInit ==
    /\ nullIsObject \in BOOLEAN
    /\ procConf \in ProcConfs
    /\ run = NoRun
    /\ modifiedRun = Null
    /\ decoded = "none"
    /\ mpc = "idle"
    /\ query = [stm |-> <<>>]
    /\ fieldName = ""
    /\ chain = <<>>
    /\ ran = <<>>
    /\ thrown = <<>>
    /\ vpc = "idle"
    /\ runs = <<>>
    /\ now = 0
    /\ calls = [c \in Callers |-> NoCall]

\* A caller builds the ProcedureRunConfig it is about to pass.
MakeRunConfig ==
    /\ mpc = "idle"
    /\ \E id \in RunIds, params \in RunParams :
          run' = [id |-> id, params |-> params]
    /\ mpc' = "called"
    /\ UNCHANGED <<nullIsObject, procConf, modifiedRun, decoded>>
    /\ UNCHANGED vvars
    /\ UNCHANGED rvars

\* Faulty variant of applyRunConfOverProcConf: the lambda works on the
\* procedure's configuration itself instead of a copy.
applyInPlace ==
    /\ mpc = "called"
    /\ modifiedRun' = update(procConf, run.params)
    /\ procConf' = modifiedRun'
    /\ \E d \in {"ok", "exception"} : decoded' = d
    /\ mpc' = "returned"
    /\ UNCHANGED <<nullIsObject, run>>
    /\ UNCHANGED vvars
    /\ UNCHANGED rvars

\* Faulty variant of applyRunConfOverProcConf: modifiedRun starts as a
\* default (null) Json::Value instead of the encoded configuration.
applyOverNull ==
    /\ mpc = "called"
    /\ modifiedRun' = update(Null, run.params)
    /\ \E d \in {"ok", "exception"} : decoded' = d
    /\ mpc' = "returned"
    /\ UNCHANGED <<nullIsObject, procConf, run>>
    /\ UNCHANGED vvars
    /\ UNCHANGED rvars

\* The whole of applyRunConfOverProcConf(procConf, run). jsonDecode is the
\* configuration type's own decoder: it returns the decoded tree or throws.
applyRunConfOverProcConf ==
    /\ mpc = "called"
    /\ modifiedRun' = update(procConf, run.params)
    /\ \E d \in {"ok", "exception"} : decoded' = d
    /\ mpc' = "returned"
    /\ UNCHANGED <<nullIsObject, procConf, run>>
    /\ UNCHANGED vvars
    /\ UNCHANGED rvars

\* The caller drops the run configuration and the result.
MergeReturn ==
    /\ mpc = "returned"
    /\ run' = NoRun
    /\ modifiedRun' = Null
    /\ decoded' = "none"
    /\ mpc' = "idle"
    /\ UNCHANGED <<nullIsObject, procConf>>
    /\ UNCHANGED vvars
    /\ UNCHANGED rvars

MergeNext == MakeRunConfig \/ applyRunConfOverProcConf \/ MergeReturn

SpecMerge == MergeInit /\ [][MergeNext]_vars

(***************************************************************************)
(* The validated field: an InputQuery-like structure whose `stm` points to *)
(* a SelectStatement or is null. stm is <<>> (null) or <<statement>>.      *)
(* A statement is [select, groupBy, having]: select is the sequence of     *)
(* select.clauses, groupBy the sequence of its clauses (their surface      *)
(* forms), having an expression (never null in a SelectStatement).         *)
(* A clause of the select list is [kind, expression, alias, surface]:      *)
(* kind is the dynamic type of the SqlRowExpression, expression the        *)
(* dynamic type of a ComputedVariable's expression.                        *)
(***************************************************************************)
RowClause(kind, surface) ==
    [kind |-> kind, expression |-> "", alias |-> "", surface |-> surface]

Computed(expression, alias, surface) ==
    [kind |-> "ComputedVariable", expression |-> expression,
     alias |-> alias, surface |-> surface]

SelectClauses ==
    { RowClause("WildcardExpression", "*"),
      RowClause("SelectColumnExpression", "COLUMN EXPR (AS columnName())"),
      RowClause("SqlRowExpression", "(other row expression)"),
      Computed("ReadVariableExpression", "x", "x"),
      Computed("SelectWithinExpression", "features", "{a, b} AS features"),
      Computed("SelectWithinExpression", "Features", "{a, b} AS Features"),
      Computed("IsTypeExpression", "x", "a IS NOT NULL AS x"),
      Computed("ComparisonExpression", "label", "a = 'true' AS label"),
      Computed("BooleanOperatorExpression", "x", "NOT a AS x"),
      Computed("FunctionCallWrapper", "features", "sum(a, b) AS features"),
      Computed("ArithmeticExpression", "label", "a + 1 AS label") }

Expr(type, value, surface) == [type |-> type, value |-> value, surface |-> surface]

\* SqlExpression::TRUE, the having of a statement that has none.
ConstantTrue == Expr("ConstantExpression", "true", "true")

Havings ==
    { ConstantTrue,
      Expr("ConstantExpression", "false", "false"),
      Expr("ComparisonExpression", "", "count(a) > 1") }

GroupBys == { <<>>, <<"b">> }

SeqsUpTo(S, n) == UNION { [1..m -> S] : m \in 0..n }

Statements ==
    { [select |-> sel, groupBy |-> g, having |-> h] :
        sel \in SeqsUpTo(SelectClauses, MaxClauses), g \in GroupBys, h \in Havings }

Queries == { [stm |-> <<>>] } \cup { [stm |-> <<st>>] : st \in Statements }

\* The `name` arguments given to validate.
FieldNames == {"trainingData", "testingData"}

\* SqlExpression::isConstantTrue().
isConstantTrue(e) == e.type = "ConstantExpression" /\ e.value = "true"

\* No exception.
NoThrow == <<>>

\* throw ML::Exception(...): the message, as the sequence of its pieces.
Throw(message) == <<message>>

(***************************************************************************)
(* NoGroupByHaving::operator()                                             *)
(***************************************************************************)
\* Faulty variant of NoGroupByHaving: the having clause is not looked at.
NoGroupByHavingIgnoresHaving(q, name) ==
    IF q.stm # <<>>
    THEN IF ~(q.stm[1].groupBy = <<>>)
         THEN Throw(<<"cannot train ", name, " with a groupBy clause">>)
         ELSE NoThrow
    ELSE NoThrow

\* Faulty variant of NoGroupByHaving: the messages leave out the field name.
NoGroupByHavingUnnamed(q, name) ==
    IF q.stm # <<>>
    THEN IF ~(q.stm[1].groupBy = <<>>)
         THEN Throw(<<"cannot train with a groupBy clause">>)
         ELSE IF ~isConstantTrue(q.stm[1].having)
              THEN Throw(<<"cannot train with a having clause">>)
              ELSE NoThrow
    ELSE NoThrow

NoGroupByHaving(q, name) ==
    IF q.stm # <<>>
    THEN IF ~(q.stm[1].groupBy = <<>>)
         THEN Throw(<<"cannot train ", name, " with a groupBy clause">>)
         ELSE IF ~isConstantTrue(q.stm[1].having)
              THEN Throw(<<"cannot train ", name, " with a having clause">>)
              ELSE NoThrow
    ELSE NoThrow

(***************************************************************************)
(* PlainColumnSelect::operator()                                           *)
(***************************************************************************)
\* Faulty variant of PlainColumnSelectContinues: every computed variable is
\* let through, whatever its expression.
PlainColumnSelectAnyComputed(clause) ==
    clause.kind \in {"WildcardExpression", "SelectColumnExpression",
                     "ComputedVariable"}

\* One pass of the body of the for loop: TRUE when it ends in `continue`.
PlainColumnSelectContinues(clause) ==
    IF clause.kind = "WildcardExpression" THEN TRUE
    ELSE IF clause.kind = "SelectColumnExpression" THEN TRUE
    ELSE IF clause.kind = "ComputedVariable"
         THEN IF clause.expression = "ReadVariableExpression" THEN TRUE
              ELSE IF clause.expression = "SelectWithinExpression" THEN TRUE
              ELSE IF clause.expression = "IsTypeExpression" THEN TRUE
              ELSE IF clause.expression = "ComparisonExpression" THEN TRUE
              ELSE IF clause.expression = "BooleanOperatorExpression" THEN TRUE
              ELSE FALSE
         ELSE FALSE

RECURSIVE PlainColumnSelectLoop(_, _)
PlainColumnSelectLoop(clauses, name) ==
    IF clauses = <<>> THEN NoThrow
    ELSE IF PlainColumnSelectContinues(Head(clauses))
         THEN PlainColumnSelectLoop(Tail(clauses), name)
         ELSE Throw(<<name,
                      " training only accept wildcard and column names at ",
                      Head(clauses).surface>>)

PlainColumnSelect(q, name) ==
    IF q.stm # <<>>
    THEN PlainColumnSelectLoop(q.stm[1].select, name)
    ELSE NoThrow

(***************************************************************************)
(* FeaturesLabelSelect::operator()                                         *)
(***************************************************************************)
\* The for loop: <<foundFeatures, foundLabel>> after the clauses left.
RECURSIVE FeaturesLabelSelectLoop(_, _, _)
FeaturesLabelSelectLoop(clauses, foundFeatures, foundLabel) ==
    IF clauses = <<>> THEN <<foundFeatures, foundLabel>>
    ELSE LET clause == Head(clauses)
             computed == clause.kind = "ComputedVariable"
         IN  FeaturesLabelSelectLoop(
                 Tail(clauses),
                 IF computed /\ clause.alias = "features" THEN TRUE
                                                          ELSE foundFeatures,
                 IF computed /\ clause.alias = "label" THEN TRUE
                                                       ELSE foundLabel)

\* Faulty variant of FeaturesLabelSelect: a null stm is taken for a select
\* list without clauses, in which neither alias is found.
FeaturesLabelSelectOnNull(q, name) ==
    LET found == IF q.stm # <<>>
                 THEN FeaturesLabelSelectLoop(q.stm[1].select, FALSE, FALSE)
                 ELSE <<FALSE, FALSE>>
    IN  IF ~found[1] \/ ~found[2]
        THEN Throw(<<name,
              " training expect a row named 'features' and a scalar named 'label'">>)
        ELSE NoThrow

\* Faulty variant of FeaturesLabelSelect: it throws only when both are missing.
FeaturesLabelSelectEither(q, name) ==
    IF q.stm # <<>>
    THEN LET found == FeaturesLabelSelectLoop(q.stm[1].select, FALSE, FALSE)
         IN  IF ~found[1] /\ ~found[2]
             THEN Throw(<<name,
                   " training expect a row named 'features' and a scalar named 'label'">>)
             ELSE NoThrow
    ELSE NoThrow

FeaturesLabelSelect(q, name) ==
    IF q.stm # <<>>
    THEN LET found == FeaturesLabelSelectLoop(q.stm[1].select, FALSE, FALSE)
         IN  IF ~found[1] \/ ~found[2]
             THEN Throw(<<name,
                   " training expect a row named 'features' and a scalar named 'label'">>)
             ELSE NoThrow
    ELSE NoThrow

(***************************************************************************)
(* validate<ConfigType, FieldType, Validator1 [, Validator2 [, Validator3]]>*)
(***************************************************************************)
Validators == {"NoGroupByHaving", "PlainColumnSelect", "FeaturesLabelSelect"}

\* ValidatorN<FieldType>()(cfg->*field, name)
CallValidator(V, q, name) ==
    CASE V = "NoGroupByHaving" -> NoGroupByHaving(q, name)
      [] V = "PlainColumnSelect" -> PlainColumnSelect(q, name)
      [] V = "FeaturesLabelSelect" -> FeaturesLabelSelect(q, name)

\* The next statement of the lambda: it is not reached when an exception
\* left an earlier one.
ThenCall(sofar, V, q, name) ==
    IF sofar.thrown # NoThrow THEN sofar
    ELSE [ran |-> Append(sofar.ran, V), thrown |-> CallValidator(V, q, name)]

LambdaEntered == [ran |-> <<>>, thrown |-> NoThrow]

validate1(V1, q, name) ==
    ThenCall(LambdaEntered, V1, q, name)

\* Faulty variant of validate2: the second validator is called first.
validate2Swapped(V1, V2, q, name) ==
    ThenCall(ThenCall(LambdaEntered, V2, q, name), V1, q, name)

validate2(V1, V2, q, name) ==
    ThenCall(ThenCall(LambdaEntered, V1, q, name), V2, q, name)

validate3(V1, V2, V3, q, name) ==
    ThenCall(ThenCall(ThenCall(LambdaEntered, V1, q, name), V2, q, name),
             V3, q, name)

\* The validators a validate<...> instance may list.
Chains == UNION { [1..m -> Validators] : m \in 1..3 }

\* The lambda validate<...>(field, name) returned, for the chain c.
validate(c, q, name) ==
    CASE Len(c) = 1 -> validate1(c[1], q, name)
      [] Len(c) = 2 -> validate2(c[1], c[2], q, name)
      [] Len(c) = 3 -> validate3(c[1], c[2], c[3], q, name)

\* A decoded configuration whose field holds `query`; nothing validated yet.
ValidateInit ==
    /\ nullIsObject = TRUE
    /\ procConf = EmptyObject
    /\ run = NoRun
    /\ modifiedRun = Null
    /\ decoded = "none"
    /\ mpc = "idle"
    /\ query \in Queries
    /\ fieldName = ""
    /\ chain = <<>>
    /\ ran = <<>>
    /\ thrown = NoThrow
    /\ vpc = "idle"
    /\ runs = <<>>
    /\ now = 0
    /\ calls = [c \in Callers |-> NoCall]

\* The lambda of a validate<...>(field, name) instance is called on the field.
Validate ==
    /\ vpc = "idle"
    /\ \E c \in Chains, name \in FieldNames :
          LET r == validate(c, query, name)
          IN  /\ chain' = c
              /\ fieldName' = name
              /\ ran' = r.ran
              /\ thrown' = r.thrown
    /\ vpc' = "validated"
    /\ UNCHANGED query
    /\ UNCHANGED mvars
    /\ UNCHANGED rvars

\* The caller has caught the exception or gone on.
ValidateReturn ==
    /\ vpc = "validated"
    /\ fieldName' = ""
    /\ chain' = <<>>
    /\ ran' = <<>>
    /\ thrown' = NoThrow
    /\ vpc' = "idle"
    /\ UNCHANGED query
    /\ UNCHANGED mvars
    /\ UNCHANGED rvars

ValidateNext == Validate \/ ValidateReturn

SpecValidate == ValidateInit /\ [][ValidateNext]_vars

(***************************************************************************)
(* Procedure::run and the run record store. procedure.h declares run       *)
(* (pure virtual), ProcedureRun, RunOutput and Procedure::runs; the        *)
(* framework code that calls run and appends to the store is not in these  *)
(* files, and is modelled here as the specification describes it:          *)
(*   - a call reads runStarted from the clock and runs the kind's logic;   *)
(*   - the kind's logic fails, or returns a RunOutput;                     *)
(*   - on a RunOutput the store, in one atomic step, checks that the run   *)
(*     id is not recorded yet, reads runFinished and appends the record;   *)
(*     a recorded id is a run error;                                       *)
(*   - on any error nothing is appended.                                   *)
(* Calls of different callers may overlap.                                 *)
(***************************************************************************)
\* struct ProcedureRun: config, runStarted, runFinished, results, details.
ProcedureRun(config, runStarted, runFinished, results, details) ==
    [config |-> config, runStarted |-> runStarted, runFinished |-> runFinished,
     results |-> results, details |-> details]

\* The run ids callers pass.
CallRunIds == {"r1", "r2"}

\* What the kind's logic may return.
RunOutputs == {RunOutput(Null, Null), RunOutput(IntVal(1), ArrayVal(<<1>>))}

\* The ids of the recorded runs.
RecordedIds(rs) == {rs[i].config.id : i \in DOMAIN rs}

\* A constructed procedure: no run recorded, no call under way.
RunInit ==
    /\ nullIsObject = TRUE
    /\ procConf = EmptyObject
    /\ run = NoRun
    /\ modifiedRun = Null
    /\ decoded = "none"
    /\ mpc = "idle"
    /\ query = [stm |-> <<>>]
    /\ fieldName = ""
    /\ chain = <<>>
    /\ ran = <<>>
    /\ thrown = NoThrow
    /\ vpc = "idle"
    /\ runs = <<>>
    /\ now = 0
    /\ calls = [c \in Callers |-> NoCall]

\* Time passes.
Tick ==
    /\ now < MaxClock
    /\ now' = now + 1
    /\ UNCHANGED <<runs, calls>>
    /\ UNCHANGED <<mvars, vvars>>

\* A caller enters run(runConfig, onProgress): runStarted is read.
CallRun ==
    /\ \E c \in Callers, id \in CallRunIds :
          /\ calls[c].pc = "idle"
          /\ Len(runs) < MaxRuns \/ id \in RecordedIds(runs)
          /\ calls' = [calls EXCEPT ![c] =
                         [pc |-> "running",
                          config |-> [id |-> id, params |-> Null],
                          runStarted |-> now, result |-> "none", error |-> "",
                          output |-> RunOutput(Null, Null)]]
    /\ UNCHANGED <<runs, now>>
    /\ UNCHANGED <<mvars, vvars>>

\* The call of caller c ends with a run error: nothing is appended.
RunError(c, why) ==
    /\ calls' = [calls EXCEPT ![c].pc = "returned", ![c].result = "error",
                              ![c].error = why]
    /\ UNCHANGED runs

\* The call of caller c ends with the RunOutput o: the record is appended
\* with runFinished read in the same step.
RunAppend(c, o) ==
    /\ runs' = Append(runs, ProcedureRun(calls[c].config, calls[c].runStarted,
                                         now, o.results, o.details))
    /\ calls' = [calls EXCEPT ![c].pc = "returned", ![c].result = "ok",
                              ![c].output = o]

\* Faulty variant of FinishRun: the append does not look at the recorded ids.
FinishRunUnchecked ==
    /\ \E c \in Callers :
          /\ calls[c].pc = "running"
          /\ \/ RunError(c, "kind-specific failure")
             \/ \E o \in RunOutputs : RunAppend(c, o)
    /\ UNCHANGED now
    /\ UNCHANGED <<mvars, vvars>>

\* Faulty variant of FinishRun: a call whose logic failed leaves its record,
\* with no results, in the store.
FinishRunKeepsFailed ==
    /\ \E c \in Callers :
          /\ calls[c].pc = "running"
          /\ \/ /\ runs' = Append(runs, ProcedureRun(calls[c].config,
                                      calls[c].runStarted, now, Null, Null))
                /\ calls' = [calls EXCEPT ![c].pc = "returned",
                                ![c].result = "error",
                                ![c].error = "kind-specific failure"]
             \/ \E o \in RunOutputs :
                   IF calls[c].config.id \in RecordedIds(runs)
                   THEN RunError(c, "duplicate run id")
                   ELSE RunAppend(c, o)
    /\ UNCHANGED now
    /\ UNCHANGED <<mvars, vvars>>

\* The kind's logic of a call ends and run returns to its caller.
FinishRun ==
    /\ \E c \in Callers :
          /\ calls[c].pc = "running"
          /\ \/ RunError(c, "kind-specific failure")
             \/ \E o \in RunOutputs :
                   IF calls[c].config.id \in RecordedIds(runs)
                   THEN RunError(c, "duplicate run id")
                   ELSE RunAppend(c, o)
    /\ UNCHANGED now
    /\ UNCHANGED <<mvars, vvars>>

\* The caller has taken the RunOutput or the error.
RunReturn ==
    /\ \E c \in Callers :
          /\ calls[c].pc = "returned"
          /\ calls' = [calls EXCEPT ![c] = NoCall]
    /\ UNCHANGED <<runs, now>>
    /\ UNCHANGED <<mvars, vvars>>

RunNext == Tick \/ CallRun \/ FinishRun \/ RunReturn

SpecRun == RunInit /\ [][RunNext]_vars

(***************************************************************************)
(* Properties of the merge. A is the encoded configuration, B the run's    *)
(* params, R the tree handed to jsonDecode. "Object" below is a value of   *)
(* type object (a mapping), whatever isObject() answers for null.          *)
(***************************************************************************)
IsMapping(v) == v.type = "object"

Has(v, k) == IsMapping(v) /\ k \in DOMAIN v.members

Returned == mpc = "returned"

\* At every key the merge reaches that A and B share and where one side is no
\* mapping, r holds b's value.
RECURSIVE BWinsWhereNotBothMappings(_, _, _)
BWinsWhereNotBothMappings(a, b, r) ==
    (IsMapping(a) /\ IsMapping(b)) =>
        \A k \in (DOMAIN a.members) \cap (DOMAIN b.members) :
            IF IsMapping(a.members[k]) /\ IsMapping(b.members[k])
            THEN Has(r, k) /\
                 BWinsWhereNotBothMappings(a.members[k], b.members[k], r.members[k])
            ELSE Has(r, k) /\ r.members[k] = b.members[k]

\* C1: for every key present in both A and B where at least one of the two
\* values is not an object, the merged result holds exactly B's value.
C1_BWinsOutright ==
    Returned => BWinsWhereNotBothMappings(procConf, run.params, modifiedRun)

\* At every key the merge reaches that only B has, r holds b's value.
RECURSIVE BOnlyKeysAdded(_, _, _)
BOnlyKeysAdded(a, b, r) ==
    (IsMapping(a) /\ IsMapping(b)) =>
        \A k \in DOMAIN b.members :
            IF k \notin DOMAIN a.members
            THEN Has(r, k) /\ r.members[k] = b.members[k]
            ELSE (IsMapping(a.members[k]) /\ IsMapping(b.members[k])) =>
                    (Has(r, k) /\
                     BOnlyKeysAdded(a.members[k], b.members[k], r.members[k]))

\* C2: every key that exists only in B, at the top level or inside a
\* recursively merged object, appears in the result with B's value.
C2_BOnlyKeyHasBValue ==
    Returned => BOnlyKeysAdded(procConf, run.params, modifiedRun)

\* At every depth: a key only a has keeps a's value; a key holding a mapping on
\* both sides holds a mapping with the members of both, merged the same way.
RECURSIVE AKeptAndMappingsMerged(_, _, _)
AKeptAndMappingsMerged(a, b, r) ==
    IF ~IsMapping(b) THEN r = a
    ELSE /\ IsMapping(r)
         /\ \A k \in DOMAIN a.members :
              IF k \notin DOMAIN b.members
              THEN Has(r, k) /\ r.members[k] = a.members[k]
              ELSE (IsMapping(a.members[k]) /\ IsMapping(b.members[k])) =>
                      /\ Has(r, k)
                      /\ IsMapping(r.members[k])
                      /\ DOMAIN r.members[k].members =
                            (DOMAIN a.members[k].members) \cup
                            (DOMAIN b.members[k].members)
                      /\ AKeptAndMappingsMerged(a.members[k], b.members[k],
                                                r.members[k])

\* C3: at every nesting depth a key that exists only in A keeps A's value, and
\* a key whose value is an object in both A and B holds the recursive merge
\* of the two objects (A's other members survive).
C3_AKeptAndObjectsMerged ==
    Returned => AKeptAndMappingsMerged(procConf, run.params, modifiedRun)

\* A nested member of A that B's object at the same key does not mention is
\* in the result next to the member B adds there.
C3_Witness ==
    /\ Returned
    /\ \E k \in Keys :
         /\ Has(procConf, k) /\ Has(run.params, k)
         /\ IsMapping(procConf.members[k]) /\ IsMapping(run.params.members[k])
         /\ \E i, j \in Keys :
              /\ Has(procConf.members[k], i)
              /\ ~Has(run.params.members[k], i)
              /\ Has(run.params.members[k], j)
              /\ modifiedRun.members[k].members[i] = procConf.members[k].members[i]
              /\ modifiedRun.members[k].members[j] = run.params.members[k].members[j]

\* C4: applyRunConfOverProcConf never changes its inputs: the procedure's
\* configuration is the same after every step, and the run configuration
\* passed to the call is the same when the call has returned, whether
\* jsonDecode returned or threw.
C4_InputsNotMutated ==
    [][/\ procConf' = procConf
       /\ (mpc = "called" => run' = run)]_vars

\* A call whose merge gave a tree other than the configuration and whose
\* decode threw has returned.
C4_Witness ==
    /\ Returned
    /\ decoded = "exception"
    /\ modifiedRun # procConf
    /\ run.params # Null

\* C10: when the override B is empty, the result of the merge equals A.
C10_EmptyOverrideIsIdentity ==
    (Returned /\ run.params \in {Null, EmptyObject}) => modifiedRun = procConf

\* A merge of an empty override over a configuration with nested members.
C10_Witness ==
    /\ Returned
    /\ run.params \in {Null, EmptyObject}
    /\ \E k \in Keys : Has(procConf, k) /\ IsMapping(procConf.members[k])
                       /\ procConf.members[k] # EmptyObject
    /\ modifiedRun = procConf

(***************************************************************************)
(* Properties of the validators. A validator's verdict is read off a       *)
(* validated state in which it was the last one entered: it threw exactly  *)
(* when an exception left the lambda.                                      *)
(***************************************************************************)
Validated == vpc = "validated"

LastRan == ran[Len(ran)]

\* The validator V was entered on a field that holds a statement.
Judged(V) == Validated /\ ran # <<>> /\ LastRan = V /\ query.stm # <<>>

Stm == query.stm[1]

Pieces(message) == {message[i] : i \in DOMAIN message}

\* C5: NoGroupByHaving fails if and only if the statement's groupBy is
\* non-empty or its having is not the constant-true expression.
C5_NoGroupByHavingVerdict ==
    Judged("NoGroupByHaving") =>
        ((thrown # NoThrow) <=>
            (Len(Stm.groupBy) > 0 \/ Stm.having # ConstantTrue))

\* NoGroupByHaving rejected a statement with no groupBy for its having.
C5_Witness ==
    /\ Judged("NoGroupByHaving")
    /\ thrown # NoThrow
    /\ Stm.groupBy = <<>>
    /\ Stm.having.type = "ConstantExpression"

\* The clause shapes the Plain-Column-Projection validator lets through.
IsPlainClause(c) ==
    \/ c.kind \in {"WildcardExpression", "SelectColumnExpression"}
    \/ /\ c.kind = "ComputedVariable"
       /\ c.expression \in {"ReadVariableExpression", "SelectWithinExpression",
                            "IsTypeExpression", "ComparisonExpression",
                            "BooleanOperatorExpression"}

NotPlain == {i \in DOMAIN Stm.select : ~IsPlainClause(Stm.select[i])}

FirstNotPlain == CHOOSE i \in NotPlain : \A j \in NotPlain : i <= j

\* C6: PlainColumnSelect accepts a statement if and only if every clause of
\* its select list is a wildcard, a column expression, or a computed variable
\* over a column read, a within expression, a type test, a comparison or a
\* boolean operator; otherwise it fails reporting the first other clause.
C6_PlainColumnSelectVerdict ==
    Judged("PlainColumnSelect") =>
        /\ (thrown = NoThrow) <=> (NotPlain = {})
        /\ (thrown # NoThrow) =>
              thrown[1][Len(thrown[1])] = Stm.select[FirstNotPlain].surface

\* PlainColumnSelect rejected a select list with two clauses of another shape,
\* of different surface forms.
C6_Witness ==
    /\ Judged("PlainColumnSelect")
    /\ thrown # NoThrow
    /\ \E i, j \in NotPlain :
          /\ i < j
          /\ Stm.select[i].surface # Stm.select[j].surface
          /\ Stm.select[j].kind = "SqlRowExpression"

HasComputedAlias(a) ==
    \E i \in DOMAIN Stm.select :
        Stm.select[i].kind = "ComputedVariable" /\ Stm.select[i].alias = a

\* C7: FeaturesLabelSelect accepts a statement if and only if its select list
\* has a computed variable aliased exactly "features" and one aliased exactly
\* "label".
C7_FeaturesLabelSelectVerdict ==
    Judged("FeaturesLabelSelect") =>
        ((thrown = NoThrow) <=>
            (HasComputedAlias("features") /\ HasComputedAlias("label")))

\* FeaturesLabelSelect rejected a select list that has a label and an alias
\* that differs from "features" only by case.
C7_Witness ==
    /\ Judged("FeaturesLabelSelect")
    /\ thrown # NoThrow
    /\ HasComputedAlias("label")
    /\ HasComputedAlias("Features")

Rejects(V) == CallValidator(V, query, fieldName) # NoThrow

Failing == {i \in DOMAIN chain : Rejects(chain[i])}

FirstFailing == CHOOSE i \in Failing : \A j \in Failing : i <= j

\* C8: a validate<...> with 1, 2 or 3 validators succeeds if and only if
\* every listed validator accepts the field; the validators are entered in
\* declaration order up to the first that fails, whose error is the one
\* reported.
C8_ChainStopsAtFirstFailure ==
    Validated =>
        /\ Len(chain) \in 1..3
        /\ (thrown = NoThrow) <=> (Failing = {})
        /\ (Failing = {}) => ran = chain
        /\ (Failing # {}) =>
              /\ ran = SubSeq(chain, 1, FirstFailing)
              /\ thrown = CallValidator(chain[FirstFailing], query, fieldName)

\* A chain of three whose first validator accepts and whose second and third
\* both reject: the third was not entered.
C8_Witness ==
    /\ Validated
    /\ Len(chain) = 3
    /\ Failing = {2, 3}
    /\ chain[2] # chain[3]
    /\ Len(ran) = 2
    /\ thrown # CallValidator(chain[3], query, fieldName)

\* The surface forms of the statement's expressions.
Surfaces ==
    {Stm.select[i].surface : i \in DOMAIN Stm.select}
        \cup {Stm.groupBy[i] : i \in DOMAIN Stm.groupBy}
        \cup {Stm.having.surface}

\* C9 as stated: every failure of the three validators names the field and
\* quotes the surface form of an expression of the statement.
C9_NamesFieldAndQuotesSurface ==
    (Validated /\ thrown # NoThrow) =>
        /\ fieldName \in Pieces(thrown[1])
        /\ Pieces(thrown[1]) \cap Surfaces # {}

\* C9 as amended: every failure names the field; a PlainColumnSelect failure
\* also quotes the surface form of the clause it stopped at, while
\* NoGroupByHaving and FeaturesLabelSelect quote no expression.
C9_NamesFieldAndPlainQuotesSurface ==
    (Validated /\ thrown # NoThrow) =>
        /\ fieldName \in Pieces(thrown[1])
        /\ IF LastRan = "PlainColumnSelect"
           THEN Stm.select[FirstNotPlain].surface \in Pieces(thrown[1])
           ELSE Pieces(thrown[1]) \cap Surfaces = {}

\* NoGroupByHaving failed on a statement with a groupBy clause, and
\* PlainColumnSelect would have failed too had it been entered.
C9_Witness ==
    /\ Validated
    /\ thrown # NoThrow
    /\ LastRan = "NoGroupByHaving"
    /\ Stm.groupBy # <<>>
    /\ NotPlain # {}
    /\ fieldName \in Pieces(thrown[1])

\* C13: when the validated field holds no statement (stm is null), each of
\* the three validators, and so every validate<...> chain of them, returns
\* without an exception: every validator of the chain is entered and none
\* throws.
C13_NullStatementAccepted ==
    (Validated /\ query.stm = <<>>) =>
        /\ thrown = NoThrow
        /\ ran = chain

\* A chain of the three validators that ends with FeaturesLabelSelect was
\* called on a field whose stm is null.
C13_Witness ==
    /\ Validated
    /\ query.stm = <<>>
    /\ Len(chain) = 3
    /\ {chain[i] : i \in DOMAIN chain} = Validators
    /\ chain[3] = "FeaturesLabelSelect"
    /\ ran = chain

(***************************************************************************)
(* Properties of run and the run record store.                             *)
(***************************************************************************)
\* In this step the run call of caller c returns.
Returns(c) == calls[c].pc = "running" /\ calls'[c].pc = "returned"

DistinctIds(rs) ==
    \A i, j \in DOMAIN rs : i # j => rs[i].config.id # rs[j].config.id

\* C11: a run call whose run id is the id of a run already recorded returns
\* a run error and leaves the run record store, size and contents, as it
\* was; the ids of the recorded runs are pairwise distinct in every state.
C11_DuplicateRunIdRejected ==
    [][/\ \A c \in Callers :
            (Returns(c) /\ calls[c].config.id \in RecordedIds(runs)) =>
                /\ calls'[c].result = "error"
                /\ runs' = runs
       /\ DistinctIds(runs')]_vars

\* A call entered after the first run was recorded, and carrying its id, was
\* rejected for the duplicate id; the store holds two records.
C11_Witness ==
    /\ Len(runs) = 2
    /\ \E c \in Callers :
          /\ calls[c].pc = "returned"
          /\ calls[c].result = "error"
          /\ calls[c].error = "duplicate run id"
          /\ calls[c].config.id = runs[1].config.id
          /\ calls[c].runStarted > runs[1].runFinished

\* C12: a run call whose kind-specific logic fails adds no entry to the
\* store, and a run call that succeeds adds exactly one entry, for its run
\* configuration, whose runFinished is at least its runStarted and whose
\* results and details are those of the RunOutput returned.
C12_AtomicRunRecord ==
    [][\A c \in Callers :
          Returns(c) =>
              IF calls'[c].result = "ok"
              THEN /\ Len(runs') = Len(runs) + 1
                   /\ SubSeq(runs', 1, Len(runs)) = runs
                   /\ LET rec == runs'[Len(runs')]
                      IN  /\ rec.config = calls[c].config
                          /\ rec.runStarted = calls[c].runStarted
                          /\ rec.runFinished >= rec.runStarted
                          /\ rec.results = calls'[c].output.results
                          /\ rec.details = calls'[c].output.details
              ELSE /\ calls'[c].result = "error"
                   /\ runs' = runs]_vars

\* One caller's run has succeeded and is recorded with runFinished after
\* runStarted and with results; the other caller's run has failed in the
\* kind's logic, and the store holds the one record.
C12_Witness ==
    /\ calls["c1"].pc = "returned"
    /\ calls["c1"].result = "ok"
    /\ calls["c2"].pc = "returned"
    /\ calls["c2"].error = "kind-specific failure"
    /\ calls["c2"].config.id # calls["c1"].config.id
    /\ Len(runs) = 1
    /\ runs[1].config = calls["c1"].config
    /\ runs[1].runFinished > runs[1].runStarted
    /\ runs[1].results = IntVal(1)
    /\ runs[1].results = calls["c1"].output.results

=============================================================================
